---- MODULE Spec2Model ----
(***************************************************************************)
(* Model of prometheus-speedtest-exporter (src/unnamed/part_002, the       *)
(* version with server discovery and filtering).                           *)
(*                                                                         *)
(* Two threads of control share the two gauges: the background goroutine   *)
(* of main (the measurement loop) and the HTTP scrape handler.  The loop   *)
(* is modelled at the granularity of its blocking calls (the two           *)
(* subprocess runs, the sleeps) and of its individual gauge operations     *)
(* (Reset, WithLabelValues().Set, Set), because a scrape can run between   *)
(* any two of them.                                                        *)
(*                                                                         *)
(* Gauge values are float64 in the source and are passed through without   *)
(* arithmetic; the model uses integers for them.  Durations are seconds.   *)
(***************************************************************************)
EXTENDS Integers, Sequences, FiniteSets, TLC

\* ---------------------------------------------------------------- bounds
\* longest stderr (in lines) a subprocess run produces in the model
MaxStderrLines == 2
\* longest server listing (in lines) a list run produces in the model
MaxListLines == 2

\* ------------------------------------------------------ program constants
\* const defaultRetryInterval = 60 * time.Second
defaultRetryInterval == 60

errRetryable403 == "speedtest temporarily failed for HTTP 403, try again later"

VARIABLES
  \* command-line flags, fixed after flag.Parse()
  flagSpeedTestServerID, flagSleepInterval, flagRetryInterval,
  flagInsecure, flagMaxDistance, flagServerRegexp,
  \* the two registered metrics
  speedtestSpeedGauge,   \* GaugeVec: set of [labels, value], one per label tuple
  speedtestPingGauge,    \* Gauge: a number
  \* the background goroutine
  pc,                    \* the operation the loop performs next / is blocked in
  allServers,            \* local allServers: getServers' result, then filtered
  serverIDs,             \* local serverIDs of the current iteration
  res,                   \* local res of the current iteration (last parsed result)
  cmdArgs,               \* argument list of the subprocess that is running
  children,              \* the child processes that run: the argument list of each
  sleepFor,              \* duration handed to the time.Sleep in progress
  \* observations of the current iteration (history, read by the properties)
  cycle,
  \* observations across iterations (history, read by the properties)
  hist,
  \* the scrape path: what the last scrape of the current iteration returned
  scrape

flagVars == <<flagSpeedTestServerID, flagSleepInterval, flagRetryInterval,
              flagInsecure, flagMaxDistance, flagServerRegexp>>
gaugeVars == <<speedtestSpeedGauge, speedtestPingGauge>>
loopVars == <<pc, allServers, serverIDs, res, cmdArgs, children, sleepFor, cycle>>
\* the locals of an iteration that feed the subprocess calls; the model keeps
\* them until the last call that reads them has returned
callVars == <<allServers, serverIDs, cmdArgs, children>>
vars == <<flagVars, gaugeVars, loopVars, hist, scrape>>

\* ------------------------------------------------------------- helpers
Range(s) == {s[i] : i \in 1..Len(s)}

SeqsUpTo(S, n) == UNION {[1..k -> S] : k \in 0..n}

\* the sequences of SeqsUpTo(S, n) in which no element occurs twice
DistinctSeqsUpTo(S, n) ==
  {q \in SeqsUpTo(S, n) : \A i, j \in 1..Len(q) : q[i] = q[j] => i = j}

Digit(n) ==
  CASE n = 0 -> "0" [] n = 1 -> "1" [] n = 2 -> "2" [] n = 3 -> "3"
    [] n = 4 -> "4" [] n = 5 -> "5" [] n = 6 -> "6" [] n = 7 -> "7"
    [] n = 8 -> "8" [] OTHER -> "9"

RECURSIVE Itoa(_)
\* fmt.Sprintf("%d", n)
Itoa(n) ==
  IF n < 0 THEN "-" \o Itoa(0 - n)
  ELSE IF n < 10 THEN Digit(n)
  ELSE Itoa(n \div 10) \o Digit(n % 10)

\* ------------------------------------------------- subprocess run results
\* A word of a stderr line: the value of its leading decimal digits (-1 when
\* it has none) and the text after them.  "403:" is N(403, ":").
W(s) == [digits |-> -1, rest |-> s]
N(n, r) == [digits |-> n, rest |-> r]

\* stderr lines the external tool is made to print, as space-separated words
Line403 == <<W("ERROR:"), W("HTTP"), W("Error"), N(403, ":"), W("Forbidden")>>
Line403Words ==
  <<W("ERROR:"), W("HTTP"), W("Error"), N(403, ":"), W("Access"), W("Denied")>>
Line404 == <<W("ERROR:"), W("HTTP"), W("Error"), N(404, ":"), W("Missing")>>
LinePlain == <<W("Cannot"), W("retrieve"), W("speedtest"), W("configuration")>>
StderrLines == {Line403, Line403Words, Line404, LinePlain}
\* the stderr of a run that fails: up to MaxStderrLines different lines
Stderrs == DistinctSeqsUpTo(StderrLines, MaxStderrLines)
\* the stderr of a run that exits with status 0
QuietStderrs == {<<>>, <<Line403>>}

\* fmt.Fscanf(strings.NewReader(line), "ERROR: HTTP Error %d: %s\n", &errCode, &errMsg)
\* n counts the verbs stored; a space in the format matches a run of spaces,
\* %s stores one space-delimited word, and the newline of the format must
\* meet the end of the line.
FscanfHTTPError(line) ==
  IF \/ Len(line) < 3
     \/ line[1] # W("ERROR:") \/ line[2] # W("HTTP") \/ line[3] # W("Error")
    THEN [n |-> 0, err |-> TRUE, errCode |-> 0]
  ELSE IF Len(line) < 4 \/ line[4].digits < 0
    THEN [n |-> 0, err |-> TRUE, errCode |-> 0]
  ELSE IF line[4].rest # ":"
    THEN [n |-> 1, err |-> TRUE, errCode |-> line[4].digits]
  ELSE IF Len(line) < 5
    THEN [n |-> 1, err |-> TRUE, errCode |-> line[4].digits]
  ELSE IF Len(line) > 5
    THEN [n |-> 2, err |-> TRUE, errCode |-> line[4].digits]
  ELSE [n |-> 2, err |-> FALSE, errCode |-> line[4].digits]

\* the scanner loop over errb: TRUE when it returns errRetryable403
scanFor403(stderr) ==
  \E i \in 1..Len(stderr) :
    LET r == FscanfHTTPError(stderr[i])
    IN ~(r.err \/ r.n # 2) /\ r.errCode = 403

\* the error both speedtest and getServers return when cmd.Run() failed
runFailure(stderr, generic) ==
  IF scanFor403(stderr) THEN errRetryable403 ELSE generic

\* ---------------------------------------------------- measurement payload
\* net.ParseIP on the texts the model uses; a net.IP is its 4-byte form,
\* <<>> is the nil IP
ParseIP(text) ==
  CASE text = "1.2.3.4" -> <<1, 2, 3, 4>>
    [] OTHER -> <<>>

\* net.IP.UnmarshalText: the empty text is the nil IP, an unparsable text an error
IPUnmarshalText(text) ==
  IF text = "" THEN [err |-> FALSE, ip |-> <<>>]
  ELSE [err |-> ParseIP(text) = <<>>, ip |-> ParseIP(text)]

\* net.IP.String
IPString(ip) ==
  IF Len(ip) = 0 THEN "<nil>"
  ELSE Itoa(ip[1]) \o "." \o Itoa(ip[2]) \o "." \o Itoa(ip[3]) \o "." \o Itoa(ip[4])

Payload(dl, ul, pg, ip, isp, cc, sponsor, host, scc) ==
  [wellFormed |-> TRUE, download |-> dl, upload |-> ul, ping |-> pg,
   ip |-> ip, isp |-> isp, country |-> cc,
   sponsor |-> sponsor, host |-> host, scountry |-> scc]

PayloadA ==
  Payload(100000000, 50000000, 15, "1.2.3.4", "ExampleISP", "US",
          "ExampleSponsor", "host.example", "US")
\* a payload without a client IP
PayloadB ==
  Payload(90000000, 50000000, 22, "", "OtherISP", "US",
          "OtherSponsor", "host.other", "CA")
PayloadBadIP ==
  Payload(100000000, 50000000, 15, "bogus", "ExampleISP", "US",
          "ExampleSponsor", "host.example", "US")
PayloadGarbage == [PayloadA EXCEPT !.wellFormed = FALSE]
Payloads == {PayloadA, PayloadB, PayloadBadIP, PayloadGarbage}

\* the zero speedTestResult of `var ret speedTestResult`
ZeroResult ==
  [Download |-> 0, Upload |-> 0, Ping |-> 0,
   Client |-> [IP |-> <<>>, ISP |-> "", Country |-> ""],
   Server |-> [Sponsor |-> "", Host |-> "", Country |-> ""]]

\* json.Unmarshal(outb.Bytes(), &ret)
jsonUnmarshal(p) ==
  IF ~p.wellFormed THEN [err |-> TRUE, ret |-> ZeroResult]
  ELSE [err |-> IPUnmarshalText(p.ip).err,
        ret |-> [Download |-> p.download, Upload |-> p.upload, Ping |-> p.ping,
                 Client |-> [IP |-> IPUnmarshalText(p.ip).ip, ISP |-> p.isp,
                             Country |-> p.country],
                 Server |-> [Sponsor |-> p.sponsor, Host |-> p.host,
                             Country |-> p.scountry]]]

\* what one run of `speedtest-cli --json` can hand back: cmd.Run()'s error,
\* the captured stderr and the captured stdout
SpeedtestRuns ==
  [runErr : {FALSE}, stderr : QuietStderrs, stdout : Payloads]
    \cup [runErr : {TRUE}, stderr : Stderrs, stdout : {PayloadGarbage}]

\* speedtest, from cmd.Run() on: the error it returns ("" for nil) and ret
speedtestOutcome(run) ==
  IF run.runErr
    THEN [err |-> runFailure(run.stderr, "failed to execute speedtest CLI"),
          ret |-> ZeroResult]
  ELSE IF jsonUnmarshal(run.stdout).err
    THEN [err |-> "failed to unmarshal JSON result", ret |-> ZeroResult]
  ELSE [err |-> "", ret |-> jsonUnmarshal(run.stdout).ret]

\* speedtest, up to exec.Command: the argument list
RECURSIVE serverArgs(_)
serverArgs(ids) ==
  IF ids = <<>> THEN <<>>
  ELSE (IF Head(ids) # 0 THEN <<"--server", Itoa(Head(ids))>> ELSE <<>>)
       \o serverArgs(Tail(ids))

\* --secure is added whatever the server IDs are
speedtestArgs_alwaysSecure(ids, insecure) ==
  <<"--json">> \o serverArgs(ids) \o (IF ~insecure THEN <<"--secure">> ELSE <<>>)

speedtestArgs(ids, insecure) ==
  LET usingServerIDs == \E i \in 1..Len(ids) : ids[i] # 0
  IN <<"--json">> \o serverArgs(ids)
     \o (IF ~insecure /\ ~usingServerIDs THEN <<"--secure">> ELSE <<>>)

\* ---------------------------------------------------------- server listing
\* A line of the `--list` output is its text, a tuple of characters.
IsDigit(c) == c \in {"0", "1", "2", "3", "4", "5", "6", "7", "8", "9"}

DigitValue(c) ==
  CASE c = "0" -> 0 [] c = "1" -> 1 [] c = "2" -> 2 [] c = "3" -> 3
    [] c = "4" -> 4 [] c = "5" -> 5 [] c = "6" -> 6 [] c = "7" -> 7
    [] c = "8" -> 8 [] OTHER -> 9

RECURSIVE Digits(_)
\* the decimal digits of n >= 0, as characters
Digits(n) == IF n < 10 THEN <<Digit(n)>> ELSE Digits(n \div 10) \o <<Digit(n % 10)>>

\* the text "<id>) <name> [<int>.<frac> km]", every part a tuple of characters
ListText(idDigits, name, intDigits, fracDigits) ==
  idDigits \o <<")", " ">> \o name \o <<" ", "[">> \o intDigits \o <<".">>
    \o fracDigits \o <<" ", "k", "m", "]">>

\* the line the tool prints for server id called name at tenths/10 km
ListLine(id, name, tenths) ==
  ListText(Digits(id), name, Digits(tenths \div 10), Digits(tenths % 10))

\* "Retrieving": a line of the listing that names no server
HeaderLine == <<"R", "e", "t", "r", "i", "e", "v", "i", "n", "g">>

\* a line whose server ID does not fit 64 bits: "99999999999999999999) c [1.0 km]"
HugeIDLine == ListText([i \in 1..20 |-> "9"], <<"c">>, <<"1">>, <<"0">>)

\* "1) a [12.5 km]", "7) ba [40.0 km]", "0) b [20.9 km]"
ListLines ==
  {ListLine(1, <<"a">>, 125), ListLine(7, <<"b", "a">>, 400),
   ListLine(0, <<"b">>, 209), HeaderLine, HugeIDLine}
\* a listing names a server once: up to MaxListLines different lines
Listings == DistinctSeqsUpTo(ListLines, MaxListLines)

\* what one run of `speedtest-cli --list` can hand back; getServers does not
\* read the stderr of a run that exits with status 0, the model leaves it empty
ListRuns ==
  [runErr : {FALSE}, stderr : {<<>>}, stdout : Listings]
    \cup [runErr : {TRUE}, stderr : Stderrs, stdout : {<<>>}]

\* the character at position n of the line, "" beyond its ends
At(line, n) == IF n \in 1..Len(line) THEN line[n] ELSE ""

RECURSIVE DigitRunEnd(_, _)
\* the last position of the run of digits that starts at position n (n - 1
\* when there is no digit at n): what a greedy \d+ takes
DigitRunEnd(line, n) ==
  IF IsDigit(At(line, n)) THEN DigitRunEnd(line, n + 1) ELSE n - 1

\* serverListRegexp = `(\d+)\) (.+) [[](\d+\.\d+) km[]]`, its head: `(\d+)\) `
\* matches from position i on
HeadAt(line, i) ==
  LET j == DigitRunEnd(line, i)
  IN j >= i /\ At(line, j + 1) = ")" /\ At(line, j + 2) = " "

\* its tail: ` [[](\d+\.\d+) km[]]` matches right after position k
TailAfter(line, k) ==
  LET q == DigitRunEnd(line, k + 3)
      r == DigitRunEnd(line, q + 2)
  IN /\ At(line, k + 1) = " " /\ At(line, k + 2) = "["
     /\ q >= k + 3 /\ At(line, q + 1) = "."
     /\ r >= q + 2
     /\ SubSeq(line, r + 1, r + 4) = <<" ", "k", "m", "]">>

\* the last position of that tail when it matches right after position k
TailEnd(line, k) == DigitRunEnd(line, DigitRunEnd(line, k + 3) + 2) + 4

RECURSIVE LastTail(_, _)
\* the largest position up to k the tail matches right after, 0 when none
LastTail(line, k) ==
  IF k < 1 THEN 0
  ELSE IF TailAfter(line, k) THEN k
  ELSE LastTail(line, k - 1)

\* the expression tried with group 1 starting at position i and group 2
\* ending at position k; the digit groups are delimited by the characters
\* that must follow them, so i and k fix the match
MatchAt(line, i, k) ==
  HeadAt(line, i) /\ k >= DigitRunEnd(line, i) + 3 /\ TailAfter(line, k)

RECURSIVE FirstMatch(_, _, _)
\* the smallest position from i on at which a match with group 2 ending at
\* position k starts, 0 when none
FirstMatch(line, i, k) ==
  IF i > Len(line) \/ k = 0 THEN 0
  ELSE IF MatchAt(line, i, k) THEN i
  ELSE FirstMatch(line, i + 1, k)

\* the match that starts at position i with group 2 ending at position k,
\* and its three groups
Submatch(line, i, k) ==
  <<SubSeq(line, i, TailEnd(line, k)),
    SubSeq(line, i, DigitRunEnd(line, i)),
    SubSeq(line, DigitRunEnd(line, i) + 3, k),
    SubSeq(line, k + 3, TailEnd(line, k) - 4)>>

\* serverListRegexp.FindStringSubmatch(line): <<>> when the expression is
\* found nowhere in the line, otherwise the match and its three groups.  The
\* match is the leftmost one, and in it the greedy `.+` of group 2 is the
\* longest one: it ends where the last tail of the line begins, and a start
\* that does not match with that tail matches with no earlier one.
FindStringSubmatch(line) ==
  IF FirstMatch(line, 1, LastTail(line, Len(line))) = 0 THEN <<>>
  ELSE Submatch(line, FirstMatch(line, 1, LastTail(line, Len(line))),
                LastTail(line, Len(line)))

\* FindStringSubmatch on every line of the model, computed once
lineMatches == {[line |-> l, matches |-> FindStringSubmatch(l)] : l \in ListLines}

\* matches := serverListRegexp.FindStringSubmatch(line), read from lineMatches
submatchOf(line) == (CHOOSE e \in lineMatches : e.line = line).matches

RECURSIVE StripZeros(_)
StripZeros(ds) ==
  IF Len(ds) > 1 /\ Head(ds) = "0" THEN StripZeros(Tail(ds)) ELSE ds

RECURSIVE DigitsGreater(_, _)
\* for digit strings of one length: a is the larger number
DigitsGreater(a, b) ==
  IF a = <<>> THEN FALSE
  ELSE IF Head(a) # Head(b) THEN DigitValue(Head(a)) > DigitValue(Head(b))
  ELSE DigitsGreater(Tail(a), Tail(b))

\* 1<<63 - 1 = 9223372036854775807
MaxInt64Digits ==
  <<"9", "2", "2", "3", "3", "7", "2", "0", "3", "6", "8", "5", "4", "7", "7",
    "5", "8", "0", "7">>

RECURSIVE DigitsValue(_)
DigitsValue(ds) ==
  IF ds = <<>> THEN 0
  ELSE DigitsValue(SubSeq(ds, 1, Len(ds) - 1)) * 10 + DigitValue(ds[Len(ds)])

\* strconv.ParseInt(ds, 10, 64) for a string of digits: a range error when
\* the number is above 1<<63 - 1
ParseInt(ds) ==
  LET sig == StripZeros(ds)
  IN IF \/ Len(sig) > Len(MaxInt64Digits)
        \/ Len(sig) = Len(MaxInt64Digits) /\ DigitsGreater(sig, MaxInt64Digits)
       THEN [err |-> TRUE, v |-> 0]
     ELSE [err |-> FALSE, v |-> DigitsValue(sig)]

\* strconv.ParseFloat(text, 64) for digits "." digits, as long as the number
\* is short enough to be a float64 exactly enough: its whole part and the
\* digits of its fraction
ParseFloat(text) ==
  LET dot == CHOOSE n \in 1..Len(text) : text[n] = "."
  IN [err |-> FALSE,
      whole |-> DigitsValue(SubSeq(text, 1, dot - 1)),
      frac |-> SubSeq(text, dot + 1, Len(text))]

RECURSIVE parseServerList(_)
\* getServers, the scanner loop over outb: one SpeedtestServer per line the
\* expression is found in, int(distanceKm) truncating the parsed float; a
\* number that does not parse ends the loop with an error
parseServerList(lines) ==
  IF lines = <<>> THEN [err |-> "", servers |-> <<>>]
  ELSE LET matches == submatchOf(Head(lines))
       IN IF Len(matches) # 4 THEN parseServerList(Tail(lines))
          ELSE IF ParseInt(matches[2]).err \/ ParseFloat(matches[4]).err
            THEN [err |-> "failed to parse integer string", servers |-> <<>>]
          ELSE LET rest == parseServerList(Tail(lines))
                   srv == [ID |-> ParseInt(matches[2]).v, Name |-> matches[3],
                           DistanceKm |-> ParseFloat(matches[4]).whole]
               IN IF rest.err # "" THEN rest
                  ELSE [err |-> "", servers |-> <<srv>> \o rest.servers]

\* the scanner loop applied to every listing of the model, as a table (@@
\* makes it one), so that no listing is scanned twice
parsedListings == [l \in Listings |-> parseServerList(l)] @@ <<>>

\* getServers, from cmd.Run() on: the error it returns ("" for nil) and servers
getServersOutcome(run) ==
  IF run.runErr
    THEN [err |-> runFailure(run.stderr,
                             "failed to get speedtest's closest servers list"),
          servers |-> <<>>]
  ELSE IF parsedListings[run.stdout].err # ""
    THEN [err |-> parsedListings[run.stdout].err, servers |-> <<>>]
  ELSE IF Len(parsedListings[run.stdout].servers) = 0
    THEN [err |-> "no servers found", servers |-> <<>>]
  ELSE [err |-> "", servers |-> parsedListings[run.stdout].servers]

\* getServers, up to exec.Command: the argument list
getServersArgs(insecure) ==
  <<"--list">> \o (IF ~insecure THEN <<"--secure">> ELSE <<>>)

\* ------------------------------------------------------------- filtering
\* serverRegexp.MatchString(name) for a pattern of literal characters: the
\* pattern occurs somewhere in the name
MatchString(pattern, name) ==
  \E i \in 0..(Len(name) - Len(pattern)) :
    SubSeq(name, i + 1, i + Len(pattern)) = pattern

RECURSIVE filterByRegexp(_, _)
\* main: for _, s := range allServers { if serverRegexp.MatchString(s.Name) ... }
filterByRegexp(servers, pattern) ==
  IF servers = <<>> THEN <<>>
  ELSE (IF MatchString(pattern, Head(servers).Name) THEN <<Head(servers)>> ELSE <<>>)
       \o filterByRegexp(Tail(servers), pattern)

RECURSIVE filterByDistance(_, _)
\* main: for _, s := range allServers { if s.DistanceKm <= *flagMaxDistance ... }
filterByDistance(servers, maxDistance) ==
  IF servers = <<>> THEN <<>>
  ELSE (IF Head(servers).DistanceKm <= maxDistance THEN <<Head(servers)>> ELSE <<>>)
       \o filterByDistance(Tail(servers), maxDistance)

\* main: the two filtering blocks applied to getServers' result
filterServers(servers, pattern, maxDistance) ==
  LET afterRegexp ==
        IF pattern # <<>> THEN filterByRegexp(servers, pattern) ELSE servers
  IN IF maxDistance > 0 THEN filterByDistance(afterRegexp, maxDistance)
     ELSE afterRegexp

\* the pinned server ID is put in front of the IDs of the filtered servers
idsOf_pinnedFirst(servers) ==
  (IF flagSpeedTestServerID # 0 THEN <<flagSpeedTestServerID>> ELSE <<>>)
    \o [i \in 1..Len(servers) |-> servers[i].ID]

\* main: for _, s := range allServers { serverIDs = append(serverIDs, s.ID) }
idsOf(servers) == [i \in 1..Len(servers) |-> servers[i].ID]

\* ------------------------------------------------------------ the gauges
\* sponsor and host handed over in the wrong order
Labels_swapped(direction, r) ==
  <<direction, IPString(r.Client.IP), r.Client.ISP, r.Client.Country,
    r.Server.Host, r.Server.Sponsor, r.Server.Country>>

\* main, publish branch: the label values of one direction
Labels(direction, r) ==
  <<direction, IPString(r.Client.IP), r.Client.ISP, r.Client.Country,
    r.Server.Sponsor, r.Server.Host, r.Server.Country>>
\* setError: the label values of one direction
EmptyLabels(direction) == <<direction, "", "", "", "", "", "">>

\* the children are not cleared
Reset_keep(vec) == vec

\* GaugeVec.Reset()
Reset(vec) == {}

\* GaugeVec.WithLabelValues(lvs...).Set(v): the child for lvs is created when
\* absent, and set
WithLabelValuesSet(vec, lvs, v) ==
  {e \in vec : e.labels # lvs} \cup {[labels |-> lvs, value |-> v]}

\* what a scrape of the registry returns
Snapshot == [speed |-> speedtestSpeedGauge, ping |-> speedtestPingGauge]

\* the snapshot setError leaves behind
ZeroSnapshot ==
  [speed |-> {[labels |-> EmptyLabels("upload"), value |-> 0],
              [labels |-> EmptyLabels("download"), value |-> 0]},
   ping |-> 0]

\* the snapshot a publish of result r leaves behind
ResultSnapshot(r) ==
  [speed |-> {[labels |-> Labels("upload", r), value |-> r.Upload],
              [labels |-> Labels("download", r), value |-> r.Download]},
   ping |-> r.Ping]

\* ------------------------------------------------------------------ Init
\* what the loop has observed of an iteration, at its top
NewCycle ==
  [start |-> Snapshot,        \* the snapshot when the iteration began
   listed |-> FALSE,          \* getServers was called
   listRun |-> [runErr |-> FALSE, line403 |-> FALSE],
   listOut |-> <<>>,          \* the stdout getServers captured, kept until
                              \* the loop has acted on what getServers returned
   listErr |-> "",            \* the error getServers returned
   noMatch |-> FALSE,         \* getServers succeeded and filtering left nothing
   measured |-> FALSE,        \* speedtest was called
   testRun |-> [runErr |-> FALSE, line403 |-> FALSE],
   testErr |-> "",            \* the error speedtest returned
   zeroed |-> FALSE,          \* setError was called
   published |-> FALSE]       \* the publish branch ran to its end

\* a stderr line of the shape `ERROR: HTTP Error 403: <msg>`
Is403Line(line) ==
  /\ Len(line) >= 5
  /\ SubSeq(line, 1, 4) = <<W("ERROR:"), W("HTTP"), W("Error"), N(403, ":")>>

Has403Line(stderr) == \E i \in 1..Len(stderr) : Is403Line(stderr[i])

Init ==
  /\ flagSpeedTestServerID \in {0, 7}
  /\ \E iv \in {<<1800, 60>>, <<30, 120>>} :
       flagSleepInterval = iv[1] /\ flagRetryInterval = iv[2]
  /\ flagInsecure \in BOOLEAN
  /\ flagMaxDistance \in {-1, 0, 20}
  /\ flagServerRegexp \in {<<>>, <<"a">>}
  /\ speedtestSpeedGauge = {}
  /\ speedtestPingGauge = 0
  /\ pc = "Idle"
  /\ allServers = <<>>
  /\ serverIDs = <<>>
  /\ res = ZeroResult
  /\ cmdArgs = <<>>
  /\ children = {}
  /\ sleepFor = [flag |-> "", d |-> 0]
  /\ cycle = NewCycle
  /\ hist = [parsed |-> FALSE,          \* speedtest has returned a result
             lastParsed |-> ZeroResult, \* the last result speedtest returned
             lastWrite |-> "none",      \* the update of the gauges completed last
             \* a list call (a measurement) was started and no time.Sleep
             \* has returned since
             listNoSleep |-> FALSE,
             testNoSleep |-> FALSE]
  /\ scrape = [torn |-> FALSE]

\* ------------------------------------------------------ the measurement loop
\* discovery decided on the name pattern alone
needDiscovery_regexpOnly(pattern, maxDistance) == pattern # <<>>

\* main: `if *flagServerRegexp == "" && *flagMaxDistance == 0 {...} else {`
needDiscovery(pattern, maxDistance) == ~(pattern = <<>> /\ maxDistance = 0)

\* main: serverIDs without any server preference
pinnedServerIDs(serverID) == IF serverID # 0 THEN <<serverID>> ELSE <<>>

\* main: `if err != nil` after getServers: setError and retry, or go on
afterGetServers(err) == IF err # "" THEN "setError_Reset" ELSE "filtering"

\* the empty list of server IDs is not checked before measuring
afterFiltering_measureAnyway(ids) == "speedtest"

\* main: `if len(serverIDs) == 0` after the filtering: setError and retry, or
\* measure
afterFiltering(ids) == IF Len(ids) = 0 THEN "setError_Reset" ELSE "speedtest"

\* a failed measurement that is not a 403 zeroes the snapshot
afterSpeedtest_zeroing(err) ==
  IF err = "" THEN [pc |-> "publish_Reset", sleep |-> "flagSleepInterval"]
  ELSE IF err = errRetryable403
    THEN [pc |-> "Sleeping", sleep |-> "defaultRetryInterval"]
  ELSE [pc |-> "setError_Reset", sleep |-> "flagRetryInterval"]

\* a failed measurement that is not a 403 ends the goroutine
afterSpeedtest_fatal(err) ==
  IF err = "" THEN [pc |-> "publish_Reset", sleep |-> "flagSleepInterval"]
  ELSE IF err = errRetryable403
    THEN [pc |-> "Sleeping", sleep |-> "defaultRetryInterval"]
  ELSE [pc |-> "Exited", sleep |-> "flagSleepInterval"]

\* a 403 continues the loop without the sleep
afterSpeedtest_noBackoff(err) ==
  IF err = "" THEN [pc |-> "publish_Reset", sleep |-> "flagSleepInterval"]
  ELSE IF err = errRetryable403
    THEN [pc |-> "Idle", sleep |-> "defaultRetryInterval"]
  ELSE [pc |-> "Sleeping", sleep |-> "flagSleepInterval"]

\* main: after speedtest, where the loop goes and what it will sleep
afterSpeedtest(err) ==
  IF err = "" THEN [pc |-> "publish_Reset", sleep |-> "flagSleepInterval"]
  ELSE IF err = errRetryable403
    THEN [pc |-> "Sleeping", sleep |-> "defaultRetryInterval"]
  ELSE [pc |-> "Sleeping", sleep |-> "flagSleepInterval"]

\* the argument of time.Sleep
Duration(flag) ==
  [flag |-> flag,
   d |-> CASE flag = "flagSleepInterval" -> flagSleepInterval
           [] flag = "flagRetryInterval" -> flagRetryInterval
           [] OTHER -> defaultRetryInterval]

\* top of the for loop up to the first exec.Command: decide the server
\* arguments and start the subprocess this iteration begins with
Idle ==
  /\ pc = "Idle"
  /\ IF needDiscovery(flagServerRegexp, flagMaxDistance)
       THEN /\ serverIDs' = <<>>
            /\ cmdArgs' = getServersArgs(flagInsecure)
            /\ pc' = "getServers"
            /\ cycle' = [NewCycle EXCEPT !.listed = TRUE]
            /\ hist' = [hist EXCEPT !.listNoSleep = TRUE]
       ELSE /\ serverIDs' = pinnedServerIDs(flagSpeedTestServerID)
            /\ cmdArgs' = speedtestArgs(serverIDs', flagInsecure)
            /\ pc' = "speedtest"
            /\ cycle' = [NewCycle EXCEPT !.measured = TRUE]
            /\ hist' = [hist EXCEPT !.testNoSleep = TRUE]
  /\ children' = children \cup {cmdArgs'}
  /\ allServers' = <<>>
  /\ res' = ZeroResult
  /\ scrape' = [torn |-> FALSE]
  /\ UNCHANGED <<flagVars, gaugeVars, sleepFor>>

\* getServers returns: on an error the loop calls setError, otherwise it
\* goes on to filter the servers
getServersReturn ==
  /\ pc = "getServers"
  /\ \E run \in ListRuns :
       LET out == getServersOutcome(run)
       IN /\ pc' = afterGetServers(out.err)
          /\ allServers' = out.servers
          /\ cycle' = [cycle EXCEPT
                         !.listRun = [runErr |-> run.runErr,
                                      line403 |-> Has403Line(run.stderr)],
                         !.listOut = run.stdout,
                         !.listErr = out.err]
  /\ cmdArgs' = <<>>
  /\ children' = children \ {cmdArgs}
  /\ UNCHANGED <<flagVars, gaugeVars, serverIDs, res, sleepFor, hist, scrape>>

\* the two filtering blocks and the construction of serverIDs: with no ID
\* left the loop calls setError, otherwise it starts the measurement
filtering ==
  /\ pc = "filtering"
  /\ allServers' = filterServers(allServers, flagServerRegexp, flagMaxDistance)
  /\ serverIDs' = idsOf(allServers')
  /\ pc' = afterFiltering(serverIDs')
  /\ cmdArgs' = IF pc' = "speedtest" THEN speedtestArgs(serverIDs', flagInsecure)
                ELSE <<>>
  /\ children' = IF pc' = "speedtest" THEN children \cup {cmdArgs'} ELSE children
  /\ hist' = [hist EXCEPT !.testNoSleep = @ \/ pc' = "speedtest"]
  /\ cycle' = [cycle EXCEPT !.listOut = <<>>,
                            !.noMatch = Len(allServers') = 0,
                            !.measured = pc' = "speedtest"]
  /\ UNCHANGED <<flagVars, gaugeVars, res, sleepFor, scrape>>

\* setError: speedtestSpeedGauge.Reset()
setError_Reset ==
  /\ pc = "setError_Reset"
  /\ speedtestSpeedGauge' = Reset(speedtestSpeedGauge)
  /\ pc' = "setError_Upload"
  /\ cycle' = [cycle EXCEPT !.listOut = <<>>, !.zeroed = TRUE]
  /\ UNCHANGED <<flagVars, speedtestPingGauge, callVars, res, sleepFor,
                 hist, scrape>>

\* setError: WithLabelValues("upload", "", ...).Set(0)
setError_Upload ==
  /\ pc = "setError_Upload"
  /\ speedtestSpeedGauge' =
       WithLabelValuesSet(speedtestSpeedGauge, EmptyLabels("upload"), 0)
  /\ pc' = "setError_Download"
  /\ UNCHANGED <<flagVars, speedtestPingGauge, callVars, res, sleepFor,
                 cycle, hist, scrape>>

\* setError: WithLabelValues("download", "", ...).Set(0)
setError_Download ==
  /\ pc = "setError_Download"
  /\ speedtestSpeedGauge' =
       WithLabelValuesSet(speedtestSpeedGauge, EmptyLabels("download"), 0)
  /\ pc' = "setError_Ping"
  /\ UNCHANGED <<flagVars, speedtestPingGauge, callVars, res, sleepFor,
                 cycle, hist, scrape>>

\* setError: speedtestPingGauge.Set(0); back in main, time.Sleep(*flagRetryInterval)
setError_Ping ==
  /\ pc = "setError_Ping"
  /\ speedtestPingGauge' = 0
  /\ pc' = "Sleeping"
  /\ sleepFor' = Duration("flagRetryInterval")
  /\ hist' = [hist EXCEPT !.lastWrite = "zero"]
  /\ UNCHANGED <<flagVars, speedtestSpeedGauge, callVars, res, cycle,
                 scrape>>

\* speedtest returns: 403 sleeps defaultRetryInterval and continues, any
\* other error falls through to the normal sleep, success enters the publish
\* branch
speedtestReturn ==
  /\ pc = "speedtest"
  /\ \E run \in SpeedtestRuns :
       LET out == speedtestOutcome(run)
           next == afterSpeedtest(out.err)
       IN /\ res' = out.ret
          /\ cycle' = [cycle EXCEPT
                         !.testRun = [runErr |-> run.runErr,
                                      line403 |-> Has403Line(run.stderr)],
                         !.testErr = out.err]
          /\ pc' = next.pc
          /\ sleepFor' = IF next.pc = "Sleeping" THEN Duration(next.sleep)
                         ELSE sleepFor
          /\ hist' = IF out.err = ""
                       THEN [hist EXCEPT !.parsed = TRUE, !.lastParsed = out.ret]
                       ELSE hist
  /\ allServers' = <<>>
  /\ serverIDs' = <<>>
  /\ cmdArgs' = <<>>
  /\ children' = children \ {cmdArgs}
  /\ UNCHANGED <<flagVars, gaugeVars, scrape>>

\* publish branch: speedtestSpeedGauge.Reset()
publish_Reset ==
  /\ pc = "publish_Reset"
  /\ speedtestSpeedGauge' = Reset(speedtestSpeedGauge)
  /\ pc' = "publish_Upload"
  /\ UNCHANGED <<flagVars, speedtestPingGauge, callVars, res, sleepFor,
                 cycle, hist, scrape>>

\* publish branch: WithLabelValues("upload", ...).Set(res.Upload)
publish_Upload ==
  /\ pc = "publish_Upload"
  /\ speedtestSpeedGauge' =
       WithLabelValuesSet(speedtestSpeedGauge, Labels("upload", res), res.Upload)
  /\ pc' = "publish_Download"
  /\ UNCHANGED <<flagVars, speedtestPingGauge, callVars, res, sleepFor,
                 cycle, hist, scrape>>

\* publish branch: WithLabelValues("download", ...).Set(res.Download)
publish_Download ==
  /\ pc = "publish_Download"
  /\ speedtestSpeedGauge' =
       WithLabelValuesSet(speedtestSpeedGauge, Labels("download", res), res.Download)
  /\ pc' = "publish_Ping"
  /\ UNCHANGED <<flagVars, speedtestPingGauge, callVars, res, sleepFor,
                 cycle, hist, scrape>>

\* publish branch: speedtestPingGauge.Set(res.Ping); then time.Sleep(*flagSleepInterval)
publish_Ping ==
  /\ pc = "publish_Ping"
  /\ speedtestPingGauge' = res.Ping
  /\ pc' = "Sleeping"
  /\ sleepFor' = Duration("flagSleepInterval")
  /\ cycle' = [cycle EXCEPT !.published = TRUE]
  /\ hist' = [hist EXCEPT !.lastWrite = "result"]
  /\ UNCHANGED <<flagVars, speedtestSpeedGauge, callVars, res, scrape>>

\* time.Sleep returns and the loop starts over (the `continue`s and the end
\* of the loop body)
SleepReturn ==
  /\ pc = "Sleeping"
  /\ pc' = "Idle"
  /\ hist' = [hist EXCEPT !.listNoSleep = FALSE, !.testNoSleep = FALSE]
  /\ UNCHANGED <<flagVars, gaugeVars, callVars, res, sleepFor, cycle, scrape>>

\* --------------------------------------------------------- the scrape path
\* the loop is between the Reset and the last Set of an update
Updating ==
  pc \in {"setError_Upload", "setError_Download", "setError_Ping",
          "publish_Upload", "publish_Download", "publish_Ping"}

\* the snapshot the update in progress is writing
UpdateTarget ==
  IF pc \in {"setError_Upload", "setError_Download", "setError_Ping"}
    THEN ZeroSnapshot ELSE ResultSnapshot(res)

\* the handler sets the ping gauge while it serves
Scrape_writing ==
  /\ scrape' = [torn |-> Updating /\ Snapshot \notin {cycle.start, UpdateTarget}]
  /\ speedtestPingGauge' = 0
  /\ UNCHANGED <<flagVars, speedtestSpeedGauge, loopVars, hist>>

\* promhttp.Handler() serving a GET: reads both gauges.  torn records whether
\* what it read is neither the snapshot before the update in progress nor
\* the one after it.
Scrape ==
  /\ scrape' = [torn |-> Updating /\ Snapshot \notin {cycle.start, UpdateTarget}]
  /\ UNCHANGED <<flagVars, gaugeVars, loopVars, hist>>

\* ------------------------------------------------------------------ Spec
Loop ==
  \/ Idle
  \/ getServersReturn
  \/ filtering
  \/ setError_Reset
  \/ setError_Upload
  \/ setError_Download
  \/ setError_Ping
  \/ speedtestReturn
  \/ publish_Reset
  \/ publish_Upload
  \/ publish_Download
  \/ publish_Ping
  \/ SleepReturn

Next == Loop \/ Scrape

Spec == Init /\ [][Next]_vars

\* every subprocess run and every sleep returns, and the goroutine is scheduled
LiveSpec == Spec /\ WF_vars(Loop)

TypeOK == pc \in {"Idle", "getServers", "filtering", "speedtest", "Sleeping",
                  "setError_Reset", "setError_Upload", "setError_Download",
                  "setError_Ping", "publish_Reset", "publish_Upload",
                  "publish_Download", "publish_Ping"}

\* ================================================================ properties
\* the snapshots the properties expect, written out label by label
NothingPublished == [speed |-> {}, ping |-> 0]

AllZero ==
  [speed |-> {[labels |-> <<"upload", "", "", "", "", "", "">>, value |-> 0],
              [labels |-> <<"download", "", "", "", "", "", "">>, value |-> 0]},
   ping |-> 0]

PublishedFrom(r) ==
  [speed |->
     {[labels |-> <<"upload", IPString(r.Client.IP), r.Client.ISP, r.Client.Country,
                    r.Server.Sponsor, r.Server.Host, r.Server.Country>>,
       value |-> r.Upload],
      [labels |-> <<"download", IPString(r.Client.IP), r.Client.ISP, r.Client.Country,
                    r.Server.Sponsor, r.Server.Host, r.Server.Country>>,
       value |-> r.Download]},
   ping |-> r.Ping]

\* the loop has finished the work of the iteration and sleeps, or has slept
IterationOver == pc \in {"Sleeping", "Idle"}

InSetError ==
  pc \in {"setError_Reset", "setError_Upload", "setError_Download", "setError_Ping"}

\* the measurement of this iteration failed, and not with the 403 error
GenericFailure == cycle.measured /\ cycle.testErr \notin {"", errRetryable403}

\* the discovery of this iteration failed or left no candidate
DiscoveryFailed == cycle.listed /\ (cycle.listErr # "" \/ cycle.noMatch)

\* C1: Last-known-good.  In an iteration whose measurement fails with anything
\* but the 403 error (a failed run without a 403 line, or a payload that does
\* not decode), the snapshot is what it was when the iteration began,
\* setError is not called, nothing is published, and the loop sleeps
\* flagSleepInterval.
C1_LastKnownGood ==
  /\ (cycle.measured /\ cycle.testRun.runErr /\ ~cycle.testRun.line403)
       => GenericFailure
  /\ GenericFailure =>
       /\ IterationOver
       /\ Snapshot = cycle.start
       /\ ~cycle.zeroed
       /\ ~cycle.published
       /\ sleepFor = [flag |-> "flagSleepInterval", d |-> flagSleepInterval]

\* a measurement fails generically after discovery succeeded, with a published
\* result standing
C1_Witness ==
  /\ pc = "Sleeping"
  /\ GenericFailure
  /\ cycle.listed
  /\ cycle.start.speed # {}
  /\ cycle.start # AllZero

\* C2: Discovery failure.  In an iteration where getServers fails or the
\* filtered list is empty, speedtest is not called, setError runs, and once it
\* is through the snapshot is the zero snapshot and the loop sleeps
\* flagRetryInterval.
C2_DiscoveryFailureZeroes ==
  DiscoveryFailed =>
    /\ ~cycle.measured
    /\ cycle.testErr = ""
    /\ cmdArgs = <<>>
    /\ \/ InSetError
       \/ /\ IterationOver
          /\ cycle.zeroed
          /\ Snapshot = AllZero
          /\ sleepFor = [flag |-> "flagRetryInterval", d |-> flagRetryInterval]

\* distance or name filtering left nothing while a published result stood
C2_Witness ==
  /\ pc = "Sleeping"
  /\ cycle.noMatch
  /\ cycle.start.speed # {}
  /\ cycle.start # AllZero
  /\ Snapshot = AllZero

\* C3 (as claimed): whenever the list call or the measurement call of an
\* iteration returns the 403 error, the snapshot after the iteration is the
\* one before it, nothing is published or zeroed, and the loop sleeps
\* defaultRetryInterval.
C3_ThrottlingChangesNothing ==
  (IterationOver /\ (cycle.listErr = errRetryable403 \/ cycle.testErr = errRetryable403))
    => /\ Snapshot = cycle.start
       /\ ~cycle.zeroed
       /\ ~cycle.published
       /\ sleepFor = [flag |-> "defaultRetryInterval", d |-> defaultRetryInterval]

\* C4: No stale labels.  After a completed publish the speed gauge holds
\* exactly the upload and the download entry of the new result, with its
\* labels and values, and the ping gauge its ping; no other entry remains.
C4_NoStaleLabels ==
  cycle.published =>
    /\ Snapshot = PublishedFrom(hist.lastParsed)
    /\ Cardinality(speedtestSpeedGauge) = 2
    /\ {e.labels[1] : e \in speedtestSpeedGauge} = {"upload", "download"}
    /\ cycle.testErr = ""

\* a publish has replaced the entries of an earlier result with other labels
C4_Witness ==
  /\ cycle.published
  /\ cycle.start.speed # {}
  /\ cycle.start # AllZero
  /\ {e.labels : e \in cycle.start.speed} \cap {e.labels : e \in speedtestSpeedGauge} = {}

\* C5 (as claimed): a scrape never returns a half-applied update; what it
\* reads is the snapshot before the update in progress or the one after it.
C5_ScrapeNeverTorn == ~scrape.torn

\* C6 (as claimed): every call of the tool whose stderr holds a line of the
\* shape `ERROR: HTTP Error 403: <msg>` returns the 403 error, whatever the
\* exit status, the message and the other lines are.
C6_Any403LineIsThrottling ==
  /\ (cycle.listed /\ cycle.listRun.line403) => cycle.listErr = errRetryable403
  /\ (cycle.measured /\ cycle.testRun.line403) => cycle.testErr = errRetryable403

\* the values that follow "--server" in an argument list
RECURSIVE ServerIDArgs(_)
ServerIDArgs(args) ==
  IF Len(args) < 2 THEN <<>>
  ELSE IF Head(args) = "--server"
    THEN <<args[2]>> \o ServerIDArgs(Tail(Tail(args)))
  ELSE ServerIDArgs(Tail(args))

\* C7: Server-argument decision.  An iteration calls getServers exactly when
\* a name pattern is set or the max distance is not zero; when it does not,
\* speedtest gets the pinned server ID alone if one is set and no server
\* argument otherwise.
C7_ServerArgumentDecision ==
  /\ (cycle.listed \/ cycle.measured) =>
       (cycle.listed <=> (flagServerRegexp # <<>> \/ flagMaxDistance # 0))
  /\ pc = "getServers" => cycle.listed /\ Head(cmdArgs) = "--list"
  /\ pc = "filtering" => cycle.listed
  /\ (pc = "speedtest" /\ ~cycle.listed) =>
       /\ Head(cmdArgs) = "--json"
       /\ ServerIDArgs(cmdArgs) =
            IF flagSpeedTestServerID # 0 THEN <<Itoa(flagSpeedTestServerID)>>
            ELSE <<>>

\* a measurement runs with the pinned server, no discovery before it
C7_Witness ==
  /\ pc = "speedtest"
  /\ ~cycle.listed
  /\ flagSpeedTestServerID # 0
  /\ cmdArgs = <<"--json", "--server", "7">>

\* the descriptor passes every configured filter: the name pattern when one
\* is set, the max distance when it is not zero
PassesFilters(srv) ==
  /\ flagServerRegexp # <<>> => MatchString(flagServerRegexp, srv.Name)
  /\ flagMaxDistance # 0 => srv.DistanceKm <= flagMaxDistance

RECURSIVE ConjunctionFilter(_)
ConjunctionFilter(servers) ==
  IF servers = <<>> THEN <<>>
  ELSE (IF PassesFilters(Head(servers)) THEN <<Head(servers)>> ELSE <<>>)
       \o ConjunctionFilter(Tail(servers))

\* C8 (as claimed): the candidates left by the name filter followed by the
\* distance filter are the descriptors that pass the conjunction of the
\* configured predicates, in input order, a max distance counting as
\* configured when it is not zero; an empty result is a no-match and never
\* reaches the measurement.
C8_SelectorEquivalence ==
  [][(pc = "filtering" /\ pc' # "filtering") =>
       /\ allServers' = ConjunctionFilter(allServers)
       /\ cycle'.noMatch <=> ConjunctionFilter(allServers) = <<>>
       /\ pc' = "setError_Reset" <=> ConjunctionFilter(allServers) = <<>>
       /\ pc' = "speedtest" <=> ConjunctionFilter(allServers) # <<>>
       /\ pc' = "speedtest" => serverIDs' # <<>>]_vars

\* C9: The loop never ends.  Whatever the list call and the measurement call
\* return, provided every subprocess run and every sleep returns, the loop
\* is at its top again and again and starts a subprocess again and again.
C9_LoopsForever ==
  /\ []<>(pc = "Idle")
  /\ []<>(pc \in {"getServers", "speedtest"})

\* the loop is back at its top after a measurement that failed
C9_Witness ==
  /\ pc = "Idle"
  /\ cycle.measured
  /\ cycle.testErr = "failed to unmarshal JSON result"

\* C10 (as claimed): in every reachable state the snapshot holds exactly one
\* result, the one parsed successfully last.
C10_SingleCurrentResult ==
  /\ hist.parsed
  /\ Snapshot = PublishedFrom(hist.lastParsed)

\* no update is in progress: no result waits to be published and setError
\* and the publish branch are not between their first and last operation
NoUpdateInProgress ==
  pc \in {"Idle", "getServers", "filtering", "speedtest", "Sleeping"}

\* C10 (amended): while no update is in progress the snapshot is empty
\* (speed gauge without entries, ping 0) as long as no update has completed,
\* the zero snapshot when the update completed last was a setError, and
\* otherwise exactly the result parsed successfully last; it never holds
\* entries of two results.
C10_SingleCurrentResultOrZero ==
  NoUpdateInProgress =>
    /\ hist.lastWrite = "none" => Snapshot = NothingPublished /\ ~hist.parsed
    /\ hist.lastWrite = "zero" => Snapshot = AllZero
    /\ hist.lastWrite = "result" =>
         hist.parsed /\ Snapshot = PublishedFrom(hist.lastParsed)
    /\ Cardinality(speedtestSpeedGauge) \in {0, 2}

\* a setError has replaced a published result, which is then not current
C10_Witness ==
  /\ NoUpdateInProgress
  /\ hist.parsed
  /\ hist.lastWrite = "zero"
  /\ Snapshot = AllZero
  /\ PublishedFrom(hist.lastParsed) # AllZero

\* C11 (as claimed): whatever the intervals given on the command line, a
\* sleep after a 403 (defaultRetryInterval) and a sleep after a failed or
\* empty discovery (flagRetryInterval) are shorter than flagSleepInterval.
C11_RetryDelaysShorter ==
  (pc = "Sleeping" /\ sleepFor.flag \in {"defaultRetryInterval", "flagRetryInterval"})
    => sleepFor.d < flagSleepInterval

\* the lines of the model that have the shape `N) name [D km]`, with the
\* descriptor each stands for: N as its digits, the name, and floor(D)
ShapedLines ==
  {[line |-> ListLine(1, <<"a">>, 125),
    ID |-> <<"1">>, Name |-> <<"a">>, DistanceKm |-> 12],
   [line |-> ListLine(7, <<"b", "a">>, 400),
    ID |-> <<"7">>, Name |-> <<"b", "a">>, DistanceKm |-> 40],
   [line |-> ListLine(0, <<"b">>, 209),
    ID |-> <<"0">>, Name |-> <<"b">>, DistanceKm |-> 20],
   [line |-> HugeIDLine,
    ID |-> [i \in 1..20 |-> "9"], Name |-> <<"c">>, DistanceKm |-> 1]}

RECURSIVE ExpectedDescriptors(_)
\* one descriptor per line of the shape, in line order
ExpectedDescriptors(lines) ==
  IF lines = <<>> THEN <<>>
  ELSE (IF \E e \in ShapedLines : e.line = Head(lines)
          THEN LET e == CHOOSE x \in ShapedLines : x.line = Head(lines)
               IN <<[ID |-> e.ID, Name |-> e.Name, DistanceKm |-> e.DistanceKm]>>
          ELSE <<>>)
       \o ExpectedDescriptors(Tail(lines))

\* getServers has just returned from a list run that exited with status 0
ListRunParsed ==
  /\ cycle.listed
  /\ ~cycle.listRun.runErr
  /\ pc = "filtering" \/ (pc = "setError_Reset" /\ cycle.listErr # "")

\* C12 (as claimed): getServers turns every line of the shape
\* `N) name [D km]` into one descriptor with ID N, the name and floor(D), in
\* line order, ignores every other line, and fails, with "no servers found",
\* exactly when no line has the shape.
C12_ServerListParsing ==
  ListRunParsed =>
    /\ cycle.listErr \in {"", "no servers found"}
    /\ cycle.listErr = "no servers found" <=> ExpectedDescriptors(cycle.listOut) = <<>>
    /\ cycle.listErr = "" =>
         [i \in 1..Len(allServers) |->
            [ID |-> Digits(allServers[i].ID), Name |-> allServers[i].Name,
             DistanceKm |-> allServers[i].DistanceKm]]
           = ExpectedDescriptors(cycle.listOut)

\* C13 (as claimed): a measurement that follows a discovery is started with
\* one --server argument for every server of the filtered list, in the order
\* of the list, and no other.
C13_AllCandidatesPassed ==
  (pc = "speedtest" /\ cycle.listed) =>
    ServerIDArgs(cmdArgs) = [i \in 1..Len(allServers) |-> Itoa(allServers[i].ID)]

\* a child process runs
ChildRunning == children # {}

\* the steps of main's goroutine that write a gauge start here
WriterSteps ==
  {"setError_Reset", "setError_Upload", "setError_Download", "setError_Ping",
   "publish_Reset", "publish_Upload", "publish_Download", "publish_Ping"}

\* C14: One invocation in flight, one writer.  At most one child process
\* runs at any time, and exactly while the loop is blocked in getServers or
\* speedtest; no gauge changes and no sleep begins while one runs; and a
\* gauge changes only in a step of the loop's setError or publish branch,
\* never in a scrape.
C14_OneInvocationSingleWriter ==
  [][/\ Cardinality(children) <= 1 /\ Cardinality(children') <= 1
     /\ ChildRunning <=> pc \in {"getServers", "speedtest"}
     /\ ChildRunning' <=> pc' \in {"getServers", "speedtest"}
     /\ ChildRunning' => children' = {cmdArgs'}
     /\ pc' = "Sleeping" => ~ChildRunning'
     /\ gaugeVars' # gaugeVars =>
          /\ ~ChildRunning /\ ~ChildRunning'
          /\ pc \in WriterSteps /\ pc' # pc]_vars

\* a scrape is possible while the measurement that follows a discovery runs
\* and a published result stands
C14_Witness ==
  /\ pc = "speedtest"
  /\ cycle.listed
  /\ children = {cmdArgs}
  /\ speedtestSpeedGauge # {}
  /\ Snapshot # AllZero

\* C15: Secure flag.  speedtest is started with --secure exactly when
\* flagInsecure is off and every server ID it was handed is 0 (or none was
\* handed), so never with both --secure and --server; getServers is started
\* with --secure exactly when flagInsecure is off.
C15_SecureFlagSelection ==
  /\ pc = "speedtest" =>
       /\ Head(cmdArgs) = "--json"
       /\ "--secure" \in Range(cmdArgs)
            <=> (~flagInsecure /\ \A i \in 1..Len(serverIDs) : serverIDs[i] = 0)
       /\ ~("--secure" \in Range(cmdArgs) /\ "--server" \in Range(cmdArgs))
  /\ pc = "getServers" =>
       /\ Head(cmdArgs) = "--list"
       /\ "--secure" \in Range(cmdArgs) <=> ~flagInsecure

\* secure mode is on and the measurement runs without --secure because it names servers
C15_Witness ==
  /\ pc = "speedtest"
  /\ ~flagInsecure
  /\ "--server" \in Range(cmdArgs)
  /\ "--secure" \notin Range(cmdArgs)
  /\ Len(serverIDs) = 2

\* C16: Filters override the pinned server.  When a name pattern or a max
\* distance is set, the server IDs main hands to speedtest are those of the
\* filtered servers, in their order, whatever flagSpeedTestServerID is; the
\* pinned ID is among the --server arguments only when a filtered server has it.
C16_FiltersOverridePinned ==
  (pc = "speedtest" /\ (flagServerRegexp # <<>> \/ flagMaxDistance # 0)) =>
    /\ cycle.listed
    /\ allServers # <<>>
    /\ serverIDs = [i \in 1..Len(allServers) |-> allServers[i].ID]
    /\ Itoa(flagSpeedTestServerID) \in Range(ServerIDArgs(cmdArgs))
         => \E i \in 1..Len(allServers) : allServers[i].ID = flagSpeedTestServerID

\* a server is pinned and the measurement runs on filtered servers, none of
\* them the pinned one
C16_Witness ==
  /\ pc = "speedtest"
  /\ cycle.listed
  /\ flagSpeedTestServerID = 7
  /\ serverIDs = <<1>>
  /\ cmdArgs = <<"--json", "--server", "1">>

\* C17: No back-to-back invocations.  A list call is started only when a
\* time.Sleep has returned since the list call before it, a measurement only
\* when one has returned since the measurement before it, and the loop is
\* back at its top only from a time.Sleep that returned.
C17_SleepBetweenInvocations ==
  [][/\ (pc' = "getServers" /\ pc # "getServers") => ~hist.listNoSleep
     /\ (pc' = "speedtest" /\ pc # "speedtest") => ~hist.testNoSleep
     /\ (pc' = "Idle" /\ pc # "Idle") =>
          /\ pc = "Sleeping"
          /\ sleepFor.flag \in {"flagSleepInterval", "flagRetryInterval",
                                "defaultRetryInterval"}]_vars

\* a measurement runs after a discovery, in an iteration after one that
\* published a result
C17_Witness ==
  /\ pc = "speedtest"
  /\ cycle.listed
  /\ hist.lastWrite = "result"
  /\ hist.testNoSleep /\ hist.listNoSleep

====
